---------------------------- MODULE Spec2Model ----------------------------
(***************************************************************************)
(* Model of ipfoo.py: parse_input (format detection / normalisation),      *)
(* convert_ipv4 (representation expansion) and the __main__ pipeline.      *)
(*                                                                         *)
(* A Python str is modelled as a sequence of one-character strings, so     *)
(* that splitting, prefix tests, numeral parsing and numeral rendering are *)
(* computed character by character as the interpreter computes them.       *)
(* ipaddress.IPv4Address is modelled as CPython 3.9.5+ implements it       *)
(* (octets with a leading zero are rejected).                              *)
(***************************************************************************)
EXTENDS Integers, Sequences, FiniteSets, TLC

\* ------------------------------------------------------------------ bounds
MaxGroups == 5   \* most dot-separated groups in a generated dotted input
MaxRuns == 2     \* program runs in one behaviour (a run may be fed a line
                 \* that the previous run printed)

\* ------------------------------------------------------- str primitives
Digits == {"0", "1", "2", "3", "4", "5", "6", "7", "8", "9"}

HexChars == <<"0", "1", "2", "3", "4", "5", "6", "7", "8", "9",
              "a", "b", "c", "d", "e", "f">>

UpperHexChars == <<"0", "1", "2", "3", "4", "5", "6", "7", "8", "9",
                   "A", "B", "C", "D", "E", "F">>

Whitespace == {" ", "\t", "\n"}

IsHexChar(c) ==
    \E v \in 1..16 : HexChars[v] = c \/ UpperHexChars[v] = c

DigitVal(c) ==
    (CHOOSE v \in 1..16 : HexChars[v] = c \/ UpperHexChars[v] = c) - 1

\* str.isdigit(): non-empty and every character a digit
isdigit(s) == Len(s) > 0 /\ \A i \in 1..Len(s) : s[i] \in Digits

\* str.startswith(prefix)
startswith(s, prefix) ==
    Len(s) >= Len(prefix) /\ SubSeq(s, 1, Len(prefix)) = prefix

RECURSIVE lstrip(_)
lstrip(s) ==
    IF Len(s) > 0 /\ s[1] \in Whitespace THEN lstrip(Tail(s)) ELSE s

RECURSIVE rstrip(_)
rstrip(s) ==
    IF Len(s) > 0 /\ s[Len(s)] \in Whitespace
    THEN rstrip(SubSeq(s, 1, Len(s) - 1))
    ELSE s

\* str.strip()
strip(s) == rstrip(lstrip(s))

\* str.split('.'): always at least one part, empty parts are kept
RECURSIVE split(_)
split(s) ==
    IF \A i \in 1..Len(s) : s[i] # "."
    THEN <<s>>
    ELSE LET i == CHOOSE k \in 1..Len(s) :
                      s[k] = "." /\ \A j \in 1..(k - 1) : s[j] # "."
         IN <<SubSeq(s, 1, i - 1)>> \o split(SubSeq(s, i + 1, Len(s)))

\* '.'.join(parts)
RECURSIVE join(_)
join(parts) ==
    IF Len(parts) = 0 THEN <<>>
    ELSE IF Len(parts) = 1 THEN parts[1]
    ELSE parts[1] \o <<".">> \o join(Tail(parts))

\* int(s, base) for a string of digits valid in that base
RECURSIVE int(_, _)
int(s, base) ==
    IF Len(s) = 0 THEN 0
    ELSE int(SubSeq(s, 1, Len(s) - 1), base) * base + DigitVal(s[Len(s)])

\* the numeral of n >= 0 in the given base (str(n), f"{n:o}", f"{n:x}")
RECURSIVE numeral(_, _)
numeral(n, base) ==
    IF n < base THEN <<HexChars[n + 1]>>
    ELSE numeral(n \div base, base) \o <<HexChars[(n % base) + 1]>>

str(n) == numeral(n, 10)

\* ------------------------------------------- 32-bit values as four octets
\* The integer built by int(input_str) / int(input_str, 16) is kept as its
\* four big-endian octets plus a flag telling that it has reached 2**32,
\* which is what IPv4Address(ip_int) tests before packing the value.
MulAdd(acc, base, d) ==
    LET v3 == acc.o[4] * base + d
        v2 == acc.o[3] * base + (v3 \div 256)
        v1 == acc.o[2] * base + (v2 \div 256)
        v0 == acc.o[1] * base + (v1 \div 256)
    IN [o |-> <<v0 % 256, v1 % 256, v2 % 256, v3 % 256>>,
        big |-> acc.big \/ (v0 \div 256) > 0]

RECURSIVE ToOctets(_, _)
ToOctets(s, base) ==
    IF Len(s) = 0 THEN [o |-> <<0, 0, 0, 0>>, big |-> FALSE]
    ELSE MulAdd(ToOctets(SubSeq(s, 1, Len(s) - 1), base), base,
                DigitVal(s[Len(s)]))

\* str(ipaddress.IPv4Address(ip_int)) for the packed octets
DottedQuad(o) == join(<<str(o[1]), str(o[2]), str(o[3]), str(o[4])>>)

\* ------------------------------------------------------------ parse_input
\* What one rule of parse_input does: return a value, raise, or fall
\* through to the next rule.
Return(r, v) == [kind |-> "return", rule |-> r, val |-> v]
Raise(r, exc) == [kind |-> exc, rule |-> r, val |-> <<>>]
FallThrough == [kind |-> "fallthrough", rule |-> 0, val |-> <<>>]
ReturnNone == [kind |-> "None", rule |-> 0, val |-> <<>>]

\* '^\d{1,3}\.\d{1,3}\.\d{1,3}\.\d{1,3}$'
MatchStandard(s) ==
    LET parts == split(s)
    IN /\ Len(parts) = 4
       /\ \A i \in 1..4 : isdigit(parts[i]) /\ Len(parts[i]) <= 3

\* '^\d+\.\d+\.\d+$'
MatchThreeGroups(s) ==
    LET parts == split(s)
    IN Len(parts) = 3 /\ \A i \in 1..3 : isdigit(parts[i])

\* '^\d+(\.\d+){1,2}$'
MatchTruncated(s) ==
    LET parts == split(s)
    IN Len(parts) \in {2, 3} /\ \A i \in 1..Len(parts) : isdigit(parts[i])

\* '^0\d+(\.\d+){3}$'
MatchOctal(s) ==
    LET parts == split(s)
    IN /\ Len(parts) = 4
       /\ \A i \in 1..4 : isdigit(parts[i])
       /\ Len(parts[1]) >= 2 /\ parts[1][1] = "0"

\* Standard IPv4
Rule1(s) ==
    IF MatchStandard(s) THEN Return(1, s) ELSE FallThrough

\* 32-bit decimal
Rule2(s) ==
    IF isdigit(s)
    THEN LET ip_int == ToOctets(s, 10)
         IN IF ip_int.big THEN Raise(2, "AddressValueError")
            ELSE Return(2, DottedQuad(ip_int.o))
    ELSE FallThrough

\* int(input_str, 16) accepts the 0x prefix followed by hex digits
ValidHexLiteral(s) ==
    /\ Len(s) > 2
    /\ \A i \in 3..Len(s) : IsHexChar(s[i])

\* 32-bit hex (0x prefix)
Rule3(s) ==
    IF startswith(s, <<"0", "x">>)
    THEN IF ~ValidHexLiteral(s) THEN Raise(3, "ValueError")
         ELSE LET ip_int == ToOctets(SubSeq(s, 3, Len(s)), 16)
              IN IF ip_int.big THEN Raise(3, "AddressValueError")
                 ELSE Return(3, DottedQuad(ip_int.o))
    ELSE FallThrough

\* IPv6 mapped (::ffff:x.x.x.x)
Rule4(s) ==
    IF startswith(s, <<":", ":", "f", "f", "f", "f", ":">>)
    THEN Return(4, SubSeq(s, 8, Len(s)))
    ELSE FallThrough

\* Rule5 with the threshold off by one (xyz > 256)
Rule5_OffByOne(s) ==
    IF MatchThreeGroups(s)
    THEN LET parts == split(s)
         IN IF Len(parts) = 3 /\ int(parts[3], 10) > 256
            THEN LET a == int(parts[1], 10)
                     b == int(parts[2], 10)
                     combined == int(parts[3], 10)
                     c == combined \div 256
                     d == combined % 256
                 IN Return(5, join(<<str(a), str(b), str(c), str(d)>>))
            ELSE FallThrough
    ELSE FallThrough

\* Integer overflow format (a.b.xyz where xyz > 255)
Rule5(s) ==
    IF MatchThreeGroups(s)
    THEN LET parts == split(s)
         IN IF Len(parts) = 3 /\ int(parts[3], 10) > 255
            THEN LET a == int(parts[1], 10)
                     b == int(parts[2], 10)
                     combined == int(parts[3], 10)
                     c == combined \div 256
                     d == combined % 256
                 IN Return(5, join(<<str(a), str(b), str(c), str(d)>>))
            ELSE FallThrough
    ELSE FallThrough

\* Rule6 without the range test of its three-group branch
Rule6_NoRangeCheck(s) ==
    IF MatchTruncated(s)
    THEN LET parts == split(s)
         IN IF Len(parts) = 2
            THEN LET a == int(parts[1], 10)
                     combined == int(parts[2], 10)
                 IN IF combined <= 255
                    THEN Return(6, join(<<str(a), <<"0">>, <<"0">>,
                                          str(combined)>>))
                    ELSE Return(6, join(<<str(a), <<"0">>,
                                          str(combined \div 256),
                                          str(combined % 256)>>))
            ELSE Return(6, join(<<parts[1], parts[2], <<"0">>, parts[3]>>))
    ELSE FallThrough

\* Rule6 returning the intermediate c, d of its two-group branch
Rule6_UsesRemainder(s) ==
    IF MatchTruncated(s)
    THEN LET parts == split(s)
         IN IF Len(parts) = 2
            THEN LET a == int(parts[1], 10)
                     combined == int(parts[2], 10)
                 IN IF combined <= 255
                    THEN Return(6, join(<<str(a), <<"0">>, <<"0">>,
                                          str(combined)>>))
                    ELSE LET b == combined \div 256
                             remainder == combined % 256
                             c == IF remainder < 256 THEN remainder \div 1
                                  ELSE remainder \div 256
                             d == IF remainder < 256 THEN remainder % 1
                                  ELSE remainder % 256
                         IN Return(6, join(<<str(a), <<"0">>, str(c), str(d)>>))
            ELSE IF Len(parts) = 3
                    /\ \A i \in 1..3 : int(parts[i], 10) <= 255
            THEN Return(6, join(<<parts[1], parts[2], <<"0">>, parts[3]>>))
            ELSE FallThrough
    ELSE FallThrough

\* Truncated format (missing octets filled with zeros, last part goes to end)
Rule6(s) ==
    IF MatchTruncated(s)
    THEN LET parts == split(s)
         IN IF Len(parts) = 2
            THEN LET a == int(parts[1], 10)
                     combined == int(parts[2], 10)
                 IN IF combined <= 255
                    THEN Return(6, join(<<str(a), <<"0">>, <<"0">>,
                                          str(combined)>>))
                    ELSE \* Handle cases like 1.300 -> 1.0.1.44
                         LET b == combined \div 256
                             remainder == combined % 256
                             c == IF remainder < 256 THEN remainder \div 1
                                  ELSE remainder \div 256
                             d == IF remainder < 256 THEN remainder % 1
                                  ELSE remainder % 256
                         IN Return(6, join(<<str(a), <<"0">>,
                                             str(combined \div 256),
                                             str(combined % 256)>>))
            ELSE IF Len(parts) = 3
                    /\ \A i \in 1..3 : int(parts[i], 10) <= 255
            THEN Return(6, join(<<parts[1], parts[2], <<"0">>, parts[3]>>))
            ELSE FallThrough
    ELSE FallThrough

\* int(part, 8) raises ValueError on a digit 8 or 9
ValidOctal(part) == \A i \in 1..Len(part) : part[i] \in Digits /\ DigitVal(part[i]) < 8

\* one group of the octal rule
OctalPart(part) ==
    IF Len(part) > 1 /\ part[1] = "0" THEN str(int(part, 8)) ELSE part

\* Octal format
Rule7(s) ==
    IF MatchOctal(s) \/ \A i \in 1..Len(s) : s[i] \in Digits \/ s[i] = "."
    THEN LET parts == split(s)
         IN IF \E i \in 1..Len(parts) :
                    Len(parts[i]) > 1 /\ parts[i][1] = "0"
                    /\ ~ValidOctal(parts[i])
            THEN FallThrough
            ELSE Return(7, join([i \in 1..Len(parts) |-> OctalPart(parts[i])]))
    ELSE FallThrough

RECURSIVE FirstMatch(_, _)
FirstMatch(results, i) ==
    IF i > Len(results) THEN ReturnNone
    ELSE IF results[i].kind # "fallthrough" THEN results[i]
    ELSE FirstMatch(results, i + 1)

parse_input(input_str) ==
    LET s == strip(input_str)
    IN FirstMatch(<<Rule1(s), Rule2(s), Rule3(s), Rule4(s),
                    Rule5(s), Rule6(s), Rule7(s)>>, 1)

\* ----------------------------------------------------------- convert_ipv4
\* ipaddress.IPv4Address(ip_str) accepts exactly four non-empty groups of at
\* most three ASCII digits, without a leading zero, each at most 255;
\* anything else raises AddressValueError.
IPv4Address(ip_str) ==
    LET parts == split(ip_str)
    IN /\ Len(parts) = 4
       /\ \A i \in 1..4 :
             /\ isdigit(parts[i])
             /\ Len(parts[i]) <= 3
             /\ (parts[i] = <<"0">> \/ parts[i][1] # "0")
             /\ int(parts[i], 10) <= 255

\* one division step of the 32-bit value by ten, on its four octets
DivMod10(o) ==
    LET c1 == o[1]
        c2 == (c1 % 10) * 256 + o[2]
        c3 == (c2 % 10) * 256 + o[3]
        c4 == (c3 % 10) * 256 + o[4]
    IN [q |-> <<c1 \div 10, c2 \div 10, c3 \div 10, c4 \div 10>>,
        r |-> c4 % 10]

\* f"{ip_int}" for ip_int = int(ip), given as its four octets
RECURSIVE Decimal32(_)
Decimal32(o) ==
    LET dm == DivMod10(o)
    IN IF dm.q = <<0, 0, 0, 0>> THEN <<HexChars[dm.r + 1]>>
       ELSE Decimal32(dm.q) \o <<HexChars[dm.r + 1]>>

\* f"0x{ip_int:08x}"
RECURSIVE Hex32(_)
Hex32(o) ==
    IF Len(o) = 0 THEN <<>>
    ELSE <<HexChars[(o[1] \div 16) + 1], HexChars[(o[1] % 16) + 1]>>
         \o Hex32(Tail(o))

\* Truncated format: the loop appends octets until the rest is all zero
Truncated(octets) ==
    LET k == CHOOSE n \in 1..Len(octets) :
                 /\ \A j \in (n + 1)..Len(octets) : octets[j] = 0
                 /\ \A m \in 1..(n - 1) :
                        \E j \in (m + 1)..Len(octets) : octets[j] # 0
    IN join([i \in 1..k |-> str(octets[i])])

\* Overflow combining the last two octets with the wrong multiplier
Overflow_Mul255(octets) ==
    LET combined == octets[3] * 255 + octets[4]
    IN IF octets[2] = 0
       THEN join(<<str(octets[1]), str(combined)>>)
       ELSE join(<<str(octets[1]), str(octets[2]), str(combined)>>)

\* Integer overflow format
Overflow(octets) ==
    LET combined == octets[3] * 256 + octets[4]
    IN IF octets[2] = 0
       THEN join(<<str(octets[1]), str(combined)>>)
       ELSE join(<<str(octets[1]), str(octets[2]), str(combined)>>)

\* Octal format
Octal(octets) ==
    join([i \in 1..Len(octets) |->
            IF octets[i] >= 8 THEN <<"0">> \o numeral(octets[i], 8)
            ELSE numeral(octets[i], 8)])

\* ShowOverflow with "and" in place of "or"
ShowOverflow_And(octets) == octets[3] >= 1 /\ octets[4] >= 1

\* if octets[2] >= 1 or octets[3] >= 1 (0-based in the source)
ShowOverflow(octets) == octets[3] >= 1 \/ octets[4] >= 1

Line(l, v) == [label |-> l, value |-> v]

\* The lines the try block prints for an address IPv4Address accepted.
Representations(ip_str) ==
    LET parts == split(ip_str)
        octets == [i \in 1..Len(parts) |-> int(parts[i], 10)]
        truncated == Truncated(octets)
    IN <<Line("Standard IPv4:", ip_str),
         Line("32-bit decimal:", Decimal32(octets)),
         Line("32-bit hex:", <<"0", "x">> \o Hex32(octets)),
         Line("IPv6 mapped:",
              <<":", ":", "f", "f", "f", "f", ":">> \o DottedQuad(octets))>>
       \o (IF truncated # ip_str
           THEN <<Line("Truncated:", truncated)>> ELSE <<>>)
       \o (IF ShowOverflow(octets)
           THEN <<Line("Overflow/truncate:", Overflow(octets))>>
           ELSE <<>>)
       \o <<Line("Octal:", Octal(octets))>>

\* convert_ipv4 printing the Standard line before the address is validated
convert_ipv4_PrintsFirst(ip_str) ==
    IF ~IPv4Address(ip_str)
    THEN <<Line("Standard IPv4:", ip_str),
           Line("Error: Invalid IPv4 address", ip_str)>>
    ELSE Representations(ip_str)

\* The lines convert_ipv4 prints, in the order it prints them.
convert_ipv4(ip_str) ==
    IF ~IPv4Address(ip_str)
    THEN <<Line("Error: Invalid IPv4 address", ip_str)>>
    ELSE Representations(ip_str)

\* ------------------------------------------------------------------ inputs
\* Octet values of the generated dotted quads: both ends of the range and
\* both sides of the one-, two- and three-digit octal numerals.
OctetValues == {0, 1, 7, 8, 63, 64, 255}

\* Group texts of the generated dotted inputs: empty, plain, leading-zero
\* octal, leading-zero non-octal, above 255, above 65535.
GroupTexts == {<<>>, <<"7">>, <<"0", "1", "0">>, <<"0", "9">>,
               <<"2", "5", "6">>, <<"7", "0", "0", "0", "0">>}

Quads ==
    {join(<<str(q[1]), str(q[2]), str(q[3]), str(q[4])>>) :
        q \in OctetValues \X OctetValues \X OctetValues \X OctetValues}

GroupSeqs(n) == [1..n -> GroupTexts]

Dotted == UNION {{join(g) : g \in GroupSeqs(n)} : n \in 1..MaxGroups}

Mapped == <<":", ":", "f", "f", "f", "f", ":">>

Others ==
    { <<>>,
      <<"a", "b", "c">>,
      <<" ", "1", ".", "2", ".", "3", ".", "4", " ">>,
      <<"1", ".", "2", ".", "3", ".", "4", "/", "8">>,
      <<"0", "0", "1", "0", ".", "2", ".", "3", ".", "4">>,
      <<"0", "1", "0", "0", ".", "0", "1", "0", ".", "3", ".", "4">>,
      <<"1", "6", "7", "7", "7", "2", "1", "6", "1">>,
      <<"4", "2", "9", "4", "9", "6", "7", "2", "9", "5">>,
      <<"4", "2", "9", "4", "9", "6", "7", "2", "9", "6">>,
      <<"0", "x">>,
      <<"0", "x", "z", "z">>,
      <<"0", "x", "0", "a", "0", "0", "0", "0", "0", "1">>,
      <<"0", "x", "F", "F">>,
      <<"0", "x", "f", "f", "f", "f", "f", "f", "f", "f">>,
      <<"0", "x", "1", "0", "0", "0", "0", "0", "0", "0", "0">>,
      <<"0", "X", "f", "f">>,
      Mapped,
      Mapped \o <<"1", ".", "2", ".", "3", ".", "4">>,
      Mapped \o <<"9", "9", "9", ".", "1", ".", "1", ".", "1">>,
      Mapped \o <<"a", "b", "c">>,
      Mapped \o <<"1", ".", "2">> }

Inputs == Quads \cup Dotted \cup Others

\* ----------------------------------------------------------- the program
VARIABLES
    input_value,  \* sys.argv[1] of the current run
    pc,           \* "parse" (line 113), "branch" (line 115), "exit"
    parsed_ip,    \* what parse_input returned or raised
    stdout,       \* the lines printed by the current run
    uncaught,     \* the exception that ended the run, or "none"
    run,          \* number of the current run
    fed,          \* label of the line of the previous run given as input
    origin        \* the string the previous run handed to convert_ipv4

vars == <<input_value, pc, parsed_ip, stdout, uncaught, run, fed, origin>>

NotCalled == [kind |-> "not called", rule |-> 0, val |-> <<>>]

Exceptions == {"AddressValueError", "ValueError"}

Init ==
    /\ input_value \in Inputs
    /\ pc = "parse"
    /\ parsed_ip = NotCalled
    /\ stdout = <<>>
    /\ uncaught = "none"
    /\ run = 1
    /\ fed = "argv"
    /\ origin = <<>>

\* parsed_ip = parse_input(input_value); an exception raised inside
\* parse_input is not caught by __main__ and ends the run with a traceback
ParseInput ==
    /\ pc = "parse"
    /\ parsed_ip' = parse_input(input_value)
    /\ IF parsed_ip'.kind \in Exceptions
       THEN pc' = "exit" /\ uncaught' = parsed_ip'.kind
       ELSE pc' = "branch" /\ uncaught' = uncaught
    /\ UNCHANGED <<input_value, stdout, run, fed, origin>>

\* "if parsed_ip:" is false for None and for the empty string
Truthy(r) == r.kind = "return" /\ Len(r.val) > 0

\* if parsed_ip: convert_ipv4(parsed_ip)
Convert ==
    /\ pc = "branch"
    /\ Truthy(parsed_ip)
    /\ stdout' = convert_ipv4(parsed_ip.val)
    /\ pc' = "exit"
    /\ UNCHANGED <<input_value, parsed_ip, uncaught, run, fed, origin>>

\* else: print(f"Error: Could not parse '{input_value}' ...")
ReportUnparsed ==
    /\ pc = "branch"
    /\ ~Truthy(parsed_ip)
    /\ stdout' = <<Line("Error: Could not parse", input_value)>>
    /\ pc' = "exit"
    /\ UNCHANGED <<input_value, parsed_ip, uncaught, run, fed, origin>>

RepresentationLabels ==
    {"Standard IPv4:", "32-bit decimal:", "32-bit hex:", "IPv6 mapped:",
     "Truncated:", "Overflow/truncate:", "Octal:"}

\* The program is run again on a representation the last run printed.
Rerun(i) ==
    /\ pc = "exit"
    /\ run < MaxRuns
    /\ stdout[i].label \in RepresentationLabels
    /\ input_value' = stdout[i].value
    /\ fed' = stdout[i].label
    /\ origin' = parsed_ip.val
    /\ run' = run + 1
    /\ pc' = "parse"
    /\ parsed_ip' = NotCalled
    /\ stdout' = <<>>
    /\ uncaught' = "none"

Feed == \E i \in 1..Len(stdout) : Rerun(i)

Next == ParseInput \/ Convert \/ ReportUnparsed \/ Feed

Spec == Init /\ [][Next]_vars

\* ------------------------------------------------- vocabulary of the claims
\* n dot-separated non-empty groups of decimal digits
DecimalGroups(s, n) ==
    Len(split(s)) = n /\ \A i \in 1..n : isdigit(split(s)[i])

\* the numeric values of the groups of a dotted decimal string
Values(s) == [i \in 1..Len(split(s)) |-> int(split(s)[i], 10)]

\* four dot-separated decimal groups, each with a value in [0,255]
Canonical(s) ==
    DecimalGroups(s, 4) /\ \A i \in 1..4 : Values(s)[i] \in 0..255

\* a canonical address written without leading zeros
StrictCanonical(s) == Canonical(s) /\ s = DottedQuad(Values(s))

Returned == parsed_ip.kind = "return"
Called == parsed_ip.kind # "not called"
Labels == [i \in 1..Len(stdout) |-> stdout[i].label]
HasLine(l) == \E i \in 1..Len(stdout) : stdout[i].label = l
Converted == pc = "exit" /\ Truthy(parsed_ip)

FixedOrder ==
    <<"Standard IPv4:", "32-bit decimal:", "32-bit hex:", "IPv6 mapped:",
      "Truncated:", "Overflow/truncate:", "Octal:">>

Position(l) == CHOOSE k \in 1..Len(FixedOrder) : FixedOrder[k] = l

\* ------------------------------------------------------------------ C1
\* C1 (as claimed): whatever the input, parse_input returns None or a
\* canonical address (four dot-separated decimal groups, each in [0,255]).
C1_AlwaysCanonical ==
    Called => \/ parsed_ip.kind = "None"
              \/ Returned /\ Canonical(parsed_ip.val)

\* C1 (amended): parse_input returns None, raises under rule 2 or 3, or
\* returns a candidate: from rules 2 and 3 and the three-group branch of
\* rule 6 a canonical address; from rules 1 and 5 and the two-group branch of
\* rule 6 four decimal groups whose values are not range-checked; from rule 7
\* a string of digits and dots with any number of groups; from rule 4 the
\* unvalidated text after the prefix.
C1_CandidateShape ==
    Called =>
        /\ parsed_ip.kind \in {"None", "return"} \cup Exceptions
        /\ parsed_ip.kind \in Exceptions => parsed_ip.rule \in {2, 3}
        /\ Returned =>
            /\ parsed_ip.rule \in 1..7
            /\ parsed_ip.rule \in {2, 3} => StrictCanonical(parsed_ip.val)
            /\ parsed_ip.rule = 6 /\ DecimalGroups(strip(input_value), 3)
                  => Canonical(parsed_ip.val)
            /\ parsed_ip.rule \in {1, 5, 6} => DecimalGroups(parsed_ip.val, 4)
            /\ parsed_ip.rule = 7 =>
                  \A i \in 1..Len(parsed_ip.val) :
                      parsed_ip.val[i] \in Digits \cup {"."}
            /\ parsed_ip.rule = 4 =>
                  parsed_ip.val = SubSeq(strip(input_value), 8,
                                         Len(strip(input_value)))

\* a three-group input normalised by rule 6 to a canonical address
C1_Witness ==
    /\ Returned /\ parsed_ip.rule = 6
    /\ DecimalGroups(strip(input_value), 3)
    /\ Canonical(parsed_ip.val)

\* ------------------------------------------------------------------ C2
\* C2: every run ends in one of three reported outcomes (the labelled
\* lines, the single "Could not parse" line naming the input, the single
\* "Invalid IPv4 address" line naming the candidate), never in a failure
\* that is not one of these lines.
C2_EveryFailureReported ==
    pc = "exit" =>
        /\ uncaught = "none"
        /\ \/ /\ Len(stdout) >= 1
              /\ \A i \in 1..Len(stdout) :
                    stdout[i].label \in RepresentationLabels
           \/ stdout = <<Line("Error: Could not parse", input_value)>>
           \/ stdout = <<Line("Error: Invalid IPv4 address", parsed_ip.val)>>

\* ------------------------------------------------------------------ C3
OctalGroup(part) == Len(part) > 1 /\ part[1] = "0" /\ ValidOctal(part)

OctalExpected(s) ==
    join([i \in 1..Len(split(s)) |->
            IF OctalGroup(split(s)[i]) THEN str(int(split(s)[i], 8))
            ELSE split(s)[i]])

\* C3: a four-group dotted input with at least one leading-zero group that
\* is a valid octal numeral is returned with each such group replaced by its
\* base-8 value in decimal and every other group unchanged.
C3_OctalGroupsConverted ==
    ( /\ Called
      /\ DecimalGroups(strip(input_value), 4)
      /\ \E i \in 1..4 : OctalGroup(split(strip(input_value))[i]) )
    => Returned /\ parsed_ip.val = OctalExpected(strip(input_value))

\* ------------------------------------------------------------------ C4
\* C4: the Truncated line printed for a canonical address, given back to
\* parse_input, returns that address.
C4_TruncatedRoundTrip ==
    (fed = "Truncated:" /\ Called /\ StrictCanonical(origin))
    => Returned /\ parsed_ip.val = origin

\* ------------------------------------------------------------------ C5
\* C5: the Octal line printed for a canonical address with an octet >= 8,
\* given back to parse_input, returns that address.
C5_OctalRoundTrip ==
    ( /\ fed = "Octal:" /\ Called /\ StrictCanonical(origin)
      /\ \E i \in 1..4 : Values(origin)[i] >= 8 )
    => Returned /\ parsed_ip.val = origin

\* ------------------------------------------------------------------ C6
\* C6: a string handed to convert_ipv4 that is not four decimal octets each
\* in [0,255] produces the single error line naming it and no
\* representation line.
C6_InvalidOnlyError ==
    (Converted /\ ~Canonical(parsed_ip.val))
    => stdout = <<Line("Error: Invalid IPv4 address", parsed_ip.val)>>

\* an out-of-range quad passed through by rule 1 and rejected
C6_Witness ==
    /\ Converted
    /\ parsed_ip.rule = 1
    /\ DecimalGroups(parsed_ip.val, 4)
    /\ \E i \in 1..4 : Values(parsed_ip.val)[i] > 255
    /\ stdout = <<Line("Error: Invalid IPv4 address", parsed_ip.val)>>

\* ------------------------------------------------------------------ C7
\* C7: for three decimal groups g1.g2.g3, g3 > 255 gives (rule 5)
\* g1.g2.(g3 div 256).(g3 mod 256); g3 <= 255 is not handled by rule 5 and,
\* when all three groups are <= 255, gives g1.g2.0.g3.
C7_ThreeGroups ==
    (Called /\ DecimalGroups(strip(input_value), 3))
    => LET g == Values(strip(input_value))
       IN /\ g[3] > 255 =>
                /\ Returned /\ parsed_ip.rule = 5
                /\ parsed_ip.val =
                     join(<<str(g[1]), str(g[2]),
                            str(g[3] \div 256), str(g[3] % 256)>>)
          /\ g[3] <= 255 => parsed_ip.rule # 5
          /\ (\A i \in 1..3 : g[i] <= 255) =>
                /\ Returned /\ parsed_ip.rule = 6
                /\ DecimalGroups(parsed_ip.val, 4)
                /\ Values(parsed_ip.val) = <<g[1], g[2], 0, g[3]>>

\* the smallest third group rule 5 handles
C7_Witness ==
    /\ Returned /\ parsed_ip.rule = 5
    /\ DecimalGroups(strip(input_value), 3)
    /\ Values(strip(input_value))[3] = 256
    /\ Values(parsed_ip.val)[3] = 1 /\ Values(parsed_ip.val)[4] = 0

\* ------------------------------------------------------------------ C8
\* C8: for two decimal groups g1.g2, g2 <= 255 gives g1.0.0.g2 and g2 > 255
\* gives g1.0.(g2 div 256).(g2 mod 256), also for g2 >= 65536.
C8_TwoGroups ==
    (Called /\ DecimalGroups(strip(input_value), 2))
    => LET g == Values(strip(input_value))
       IN /\ Returned /\ parsed_ip.rule = 6
          /\ g[2] <= 255 =>
                parsed_ip.val = join(<<str(g[1]), <<"0">>, <<"0">>, str(g[2])>>)
          /\ g[2] > 255 =>
                parsed_ip.val = join(<<str(g[1]), <<"0">>,
                                       str(g[2] \div 256), str(g[2] % 256)>>)

\* a second group of 65536 or more
C8_Witness ==
    /\ Returned /\ parsed_ip.rule = 6
    /\ DecimalGroups(strip(input_value), 2)
    /\ Values(strip(input_value))[2] >= 65536
    /\ Values(parsed_ip.val)[3] > 255

\* ------------------------------------------------------------------ C9
LinesInOrder ==
    /\ \A i \in 1..Len(stdout) : stdout[i].label \in RepresentationLabels
    /\ \A i, j \in 1..Len(stdout) :
          i < j => Position(Labels[i]) < Position(Labels[j])
    /\ \A l \in {"Standard IPv4:", "32-bit decimal:", "32-bit hex:",
                 "IPv6 mapped:", "Octal:"} : HasLine(l)
    /\ HasLine("Truncated:") <=> Values(parsed_ip.val)[4] = 0
    /\ HasLine("Overflow/truncate:") <=>
          (Values(parsed_ip.val)[3] >= 1 \/ Values(parsed_ip.val)[4] >= 1)

\* C9 (as claimed): for a canonical address the lines come in the fixed
\* order, the five unconditional ones once each, Truncated exactly when it
\* differs from Standard (the last octet is 0), Overflow/truncate exactly
\* when o2 >= 1 or o3 >= 1, and the total is seven lines or five.
C9_SevenOrFive ==
    (Converted /\ StrictCanonical(parsed_ip.val))
    => LinesInOrder /\ Len(stdout) \in {5, 7}

\* C9 (amended): as claimed, except that the total is seven lines when both
\* Truncated and Overflow/truncate are printed and six when exactly one is;
\* they are never both suppressed, so there are never five lines.
C9_SevenOrSix ==
    (Converted /\ StrictCanonical(parsed_ip.val))
    => /\ LinesInOrder
       /\ Len(stdout) \in {6, 7}
       /\ Len(stdout) = 7 <=>
             (HasLine("Truncated:") /\ HasLine("Overflow/truncate:"))

\* a six-line output: Truncated suppressed, Overflow/truncate printed
C9_Witness ==
    /\ Converted /\ StrictCanonical(parsed_ip.val)
    /\ Len(stdout) = 6
    /\ ~HasLine("Truncated:") /\ HasLine("Overflow/truncate:")

\* ------------------------------------------------------------------ C10
\* C10: the Overflow/truncate line printed for a canonical address, given
\* back to parse_input, returns that address (by rule 5 or rule 6).
C10_OverflowRoundTrip ==
    (fed = "Overflow/truncate:" /\ Called /\ StrictCanonical(origin))
    => /\ Returned
       /\ parsed_ip.rule \in {5, 6}
       /\ parsed_ip.val = origin

\* a three-group overflow line taken back by rule 5
C10_Witness ==
    /\ fed = "Overflow/truncate:" /\ StrictCanonical(origin)
    /\ Returned /\ parsed_ip.rule = 5
    /\ parsed_ip.val = origin
    /\ Values(origin)[3] = 255 /\ Values(origin)[4] = 255

=============================================================================
